---- MODULE Spec2Model ----
(***************************************************************************)
(* Model of the incremental decoding state machine of mtllm/models/llama.py *)
(* (class LLAMA and its attention layers).                                  *)
(*                                                                          *)
(* Tensors are modelled by their shape and by the symbolic content of each  *)
(* (batch row, sequence position) cell: a tensor of shape (bsz, len, ...)   *)
(* is a sequence of bsz rows, each a sequence of len cells.  A cell is a    *)
(* symbolic term that records what the floating point value was computed    *)
(* from, so two cells are equal exactly when the code computes them by the  *)
(* same operations from the same inputs.                                    *)
(***************************************************************************)
EXTENDS Integers, Sequences, FiniteSets, TLC

(* ------------------------------ bounds --------------------------------- *)
\* ModelArgs.max_seq_len of the models explored (the default is 1024)
MaxSeqLen == 2
\* ModelArgs.n_layers of the models explored (the default is 32)
NLayers == 2
\* largest batch size of a token, audio or prompt tensor
MaxBsz == 2
\* largest number of columns of prev_output_tokens
MaxTokens == 2
\* token ids are 0..MaxTok
MaxTok == 1
\* largest audio length (encoder_out.shape[1])
MaxAudio == 1
\* largest left prompt length (left_prompts.shape[1])
MaxLeft == 1
\* calls that would make a cache longer than this are not explored
MaxCacheLen == 4
\* number of calls explored per session
MaxCalls == 3

Sessions == {"s1", "s2"}

VARIABLES
    params,             \* the ModelArgs the model was constructed with
    model,              \* what LLAMA.__init__ built from params
    incremental_state,  \* per session: the cache map passed to its calls
    last,               \* the last call: operation, arguments, outcome
    hist,               \* per session: summary of the calls made so far
    alone               \* per session: the cache map its calls give when
                        \* no other session runs between them

vars == <<params, model, incremental_state, last, hist, alone>>

(* ------------------------- optional arguments -------------------------- *)
None == [some |-> FALSE]
Some(v) == [some |-> TRUE, val |-> v]

(* ------------------------------ tensors -------------------------------- *)
Min(a, b) == IF a < b THEN a ELSE b
Max(a, b) == IF a > b THEN a ELSE b

\* x.shape[0] and x.shape[1]
Bsz(t) == Len(t)
SeqLen(t) == Len(t[1])

\* torch.cat((a, b), dim=1); the caller has checked the batch sizes agree
Cat(a, b) == [r \in 1..Len(a) |-> a[r] \o b[r]]

RECURSIVE Flatten(_)
Flatten(t) == IF t = <<>> THEN <<>> ELSE Head(t) \o Flatten(Tail(t))

\* t.view(bsz, -1, heads, head_dim) of a contiguous (b0, len, heads, head_dim)
\* tensor: defined when b0 * len is a multiple of bsz; the cells are taken in
\* row-major order
ViewOK(t, bsz) == (Len(t) * SeqLen(t)) % bsz = 0
View(t, bsz) ==
    LET flat == Flatten(t)
        n == Len(flat) \div bsz
    IN [r \in 1..bsz |-> SubSeq(flat, (r - 1) * n + 1, r * n)]

\* as IndexSelect, but the row numbers are counted from the last row
IndexSelect_FromEnd(t, new_order) ==
    [b \in 1..Len(new_order) |-> t[Len(t) - new_order[b]]]

\* t.index_select(0, new_order), new_order holding 0-based row numbers
IndexSelectOK(t, new_order) == \A b \in 1..Len(new_order) : new_order[b] < Len(t)
IndexSelect(t, new_order) == [b \in 1..Len(new_order) |-> t[new_order[b] + 1]]

\* prev_output_tokens[:, -1:]
LastColumn(t) ==
    [r \in 1..Len(t) |-> IF t[r] = <<>> THEN <<>> ELSE <<t[r][Len(t[r])]>>]

\* self.tok_embeddings(tokens): one embedding vector per token id
tok_embeddings(tokens) ==
    [r \in 1..Len(tokens) |->
        [j \in 1..Len(tokens[r]) |-> [e |-> "tok", id |-> tokens[r][j]]]]

\* an externally encoded audio block audio_out["encoder_out"] of shape
\* (bsz, len, dim): every cell is a distinct opaque vector
encoder_out(bsz, len) ==
    [r \in 1..bsz |-> [j \in 1..len |-> [e |-> "audio", b |-> r, i |-> j]]]

(* --------------------------- rotary table ------------------------------ *)
\* precompute_freqs_cis(dim, end): row t (0-based) holds the rotation of
\* position t; the row is identified by its position
precompute_freqs_cis(head_dim, end) == [t \in 1..end |-> t - 1]

\* freqs_cis[start : stop] with Python's clamping of the slice bounds
Slice(table, start, stop) ==
    IF start >= Len(table) \/ stop <= start THEN <<>>
    ELSE SubSeq(table, start + 1, Min(stop, Len(table)))

(* ---------------------------- construction ----------------------------- *)
\* as LLAMA_init, but the rotary table covers max_seq_len positions only
LLAMA_init_ShortTable(args) ==
    [ constructed |-> TRUE,
      head_dim  |-> args.dim \div args.n_heads,
      wq_out    |-> args.n_heads * (args.dim \div args.n_heads),
      dim       |-> args.dim,
      n_layers  |-> args.n_layers,
      use_lora  |-> args.use_lora,
      freqs_cis |-> precompute_freqs_cis(args.dim \div args.n_heads,
                                         args.max_seq_len) ]

\* LLAMA.__init__ with the Attention(_LoRA).__init__ of its layers: no check
\* is made on dim and n_heads, the head dimension is the floor quotient
LLAMA_init(args) ==
    [ constructed |-> TRUE,
      head_dim  |-> args.dim \div args.n_heads,
      wq_out    |-> args.n_heads * (args.dim \div args.n_heads),
      dim       |-> args.dim,
      n_layers  |-> args.n_layers,
      use_lora  |-> args.use_lora,
      freqs_cis |-> precompute_freqs_cis(args.dim \div args.n_heads,
                                         args.max_seq_len * 2) ]

(* ------------------------------ caches --------------------------------- *)
\* A cache map (the incremental_state argument) maps layer ids to dicts; a
\* dict is empty or holds "prev_key" and "prev_value" (lines 272-277 set both).
\*   in_map: the layer id is a key of the map;  has: the dict holds the pair
NoEntry == [in_map |-> FALSE, has |-> FALSE, prev_key |-> <<>>, prev_value |-> <<>>]
EmptyDict == [in_map |-> TRUE, has |-> FALSE, prev_key |-> <<>>, prev_value |-> <<>>]
Layers == 0..(NLayers - 1)
EmptyMap == [i \in Layers |-> NoEntry]

\* cached sequence length of a tensor, 0 when there is none
KeyLen(d) == IF d.has THEN SeqLen(d.prev_key) ELSE 0
ValueLen(d) == IF d.has THEN SeqLen(d.prev_value) ELSE 0

(* ----------------------------- attention ------------------------------- *)
\* the additive mask of forward_generate: torch.triu(full((1, 1, n, n), -inf),
\* diagonal = start + 1); entry (j, t) is -inf iff t - j >= start + 1
CausalMask(n, start) == [n |-> n, start |-> start]
Hidden(mask, j, t) == t - j >= mask.start + 1

\* the keys query j of the chunk attends to: the softmax weight of key t is
\* non-zero iff the mask, when there is one, does not hold -inf at (j, t)
Attended(mask, j, keylen) ==
    {t \in 1..keylen : ~(mask.some /\ Hidden(mask.val, j, t))}

\* softmax(scores) @ values for query j: the (key, value) cells with a
\* non-zero weight, in key order, from key t on
RECURSIVE AttendedCells(_, _, _, _, _)
AttendedCells(keys, values, mask, j, t) ==
    IF t > Len(keys) THEN <<>>
    ELSE (IF t \in Attended(mask, j, Len(keys))
          THEN <<[key |-> keys[t], value |-> values[t]]>> ELSE <<>>)
         \o AttendedCells(keys, values, mask, j, t + 1)

\* reshape_for_broadcast: the assertion on the shape of the rotary slice
reshape_for_broadcast_ok(freqs_cis, seqlen) == Len(freqs_cis) = seqlen

\* apply_rotary_emb: "" when it returns, else the exception it raises.  The
\* reshape to (..., -1, 2) needs a non-empty tensor with an even head_dim.
apply_rotary_emb_err(head_dim, seqlen, freqs_cis) ==
    IF seqlen = 0 \/ head_dim % 2 # 0 THEN "RuntimeError"
    ELSE IF ~reshape_for_broadcast_ok(freqs_cis, seqlen) THEN "AssertionError"
    ELSE ""

\* lines 259-277 (and 358-374): extend the layer's cache by the new keys and
\* values; err is set when the view of the stored tensors fails
UpdateCache(d, xk, xv) ==
    LET bsz == Len(xk) IN
    IF ~d.has THEN
        [d |-> [in_map |-> TRUE, has |-> TRUE, prev_key |-> xk, prev_value |-> xv],
         err |-> ""]
    ELSE IF ~ViewOK(d.prev_key, bsz) \/ ~ViewOK(d.prev_value, bsz) THEN
        [d |-> d, err |-> "RuntimeError"]
    ELSE
        [d |-> [in_map |-> TRUE, has |-> TRUE,
                prev_key |-> Cat(View(d.prev_key, bsz), xk),
                prev_value |-> Cat(View(d.prev_value, bsz), xv)],
         err |-> ""]

\* lines 253-297 common to both attention classes: rotary embedding of the
\* queries and keys, cache update, masked softmax over the keys.
\* Result: d the layer's dict afterwards, out the attention output (one cell
\* per chunk position), err the exception raised ("" for none).
AttentionCore(m, x, freqs_cis, mask, d) ==
    LET bsz == Len(x)
        seqlen == SeqLen(x)
        rot == apply_rotary_emb_err(m.head_dim, seqlen, freqs_cis)
    IN
    IF rot # "" THEN [d |-> d, out |-> <<>>, err |-> rot]
    ELSE
      LET xq == [r \in 1..bsz |-> [j \in 1..seqlen |-> [q |-> x[r][j], pos |-> freqs_cis[j]]]]
          xk == [r \in 1..bsz |-> [j \in 1..seqlen |-> [k |-> x[r][j], pos |-> freqs_cis[j]]]]
          xv == [r \in 1..bsz |-> [j \in 1..seqlen |-> [v |-> x[r][j]]]]
          \* d = NoEntry stands for incremental_state=None: no cache is kept
          upd == IF d.in_map THEN UpdateCache(d, xk, xv) ELSE [d |-> d, err |-> ""]
      IN
      IF upd.err # "" THEN [d |-> upd.d, out |-> <<>>, err |-> upd.err]
      ELSE
        LET keys == IF d.in_map THEN upd.d.prev_key ELSE xk
            values == IF d.in_map THEN upd.d.prev_value ELSE xv
            keylen == SeqLen(keys)
        IN
        \* scores + mask: (bsz, heads, seqlen, keylen) + (1, 1, n, n)
        IF mask.some /\ keylen # mask.val.n THEN
            [d |-> upd.d, out |-> <<>>, err |-> "RuntimeError"]
        ELSE
            [d |-> upd.d,
             out |-> [r \in 1..bsz |-> [j \in 1..seqlen |->
                        [q |-> xq[r][j],
                         att |-> AttendedCells(keys[r], values[r], mask, j, 1)]]],
             err |-> ""]

\* Attention_LoRA.forward: lines 249-251 add the LoRA branch, of width dim,
\* to the base projection, of width n_heads * head_dim
Attention_LoRA_forward(m, x, freqs_cis, mask, d) ==
    IF m.wq_out # m.dim THEN [d |-> d, out |-> <<>>, err |-> "RuntimeError"]
    ELSE AttentionCore(m, x, freqs_cis, mask, d)

\* Attention.forward (flash_attention is False): its keyword parameters
Attention_forward_params ==
    {"x", "start_pos", "freqs_cis", "mask", "incremental_state", "gradient_checkpointing"}
Attention_forward(m, x, freqs_cis, mask, d, keywords) ==
    IF ~(keywords \subseteq Attention_forward_params) THEN
        [d |-> d, out |-> <<>>, err |-> "TypeError"]
    ELSE AttentionCore(m, x, freqs_cis, mask, d)

\* TransformerBlock.forward: h = x + attention(norm(x), ..., layer_id=...),
\* out = h + feed_forward(norm(h)); the output cell is a term over the input
\* cell and the attention output
TransformerBlock_forward(m, x, freqs_cis, mask, d) ==
    LET a == IF m.use_lora
             THEN Attention_LoRA_forward(m, x, freqs_cis, mask, d)
             ELSE Attention_forward(m, x, freqs_cis, mask, d, {"layer_id"})
    IN IF a.err # "" THEN a
       ELSE [d |-> a.d,
             out |-> [r \in 1..Len(x) |-> [j \in 1..SeqLen(x) |->
                        [x |-> x[r][j], attn |-> a.out[r][j]]]],
             err |-> ""]

\* lines 546-549: the loop over the layers; an exception leaves the map as
\* the layers before it made it
RECURSIVE RunLayers(_, _, _, _, _, _)
RunLayers(m, i, h, freqs_cis, mask, st) ==
    IF i = m.n_layers THEN [st |-> st, h |-> h, err |-> ""]
    ELSE
      LET st1 == IF st[i].in_map THEN st ELSE [st EXCEPT ![i] = EmptyDict]
          r == TransformerBlock_forward(m, h, freqs_cis, mask, st1[i])
          st2 == [st1 EXCEPT ![i] = r.d]
      IN IF r.err # "" THEN [st |-> st2, h |-> <<>>, err |-> r.err]
         ELSE RunLayers(m, i + 1, r.out, freqs_cis, mask, st2)

(* -------------------------- forward_generate --------------------------- *)
\* torch.cat(parts, dim=1) needs the same batch size in every part
CatOK(parts) == \A p \in 1..Len(parts) : Len(parts[p]) = Len(parts[1])
RECURSIVE CatAll(_)
CatAll(parts) ==
    IF Len(parts) = 1 THEN parts[1] ELSE Cat(parts[1], CatAll(Tail(parts)))

\* lines 513-535: the sequence of embeddings fed to the layers
Assemble(prev_output_tokens, start_pos, audio_out, left_prompts) ==
    IF audio_out.some THEN
        IF start_pos = 0 THEN
            IF left_prompts.some
            THEN <<tok_embeddings(left_prompts.val), audio_out.val,
                   tok_embeddings(prev_output_tokens)>>
            ELSE <<audio_out.val, tok_embeddings(prev_output_tokens)>>
        ELSE <<tok_embeddings(LastColumn(prev_output_tokens))>>
    ELSE
        IF start_pos = 0
        THEN <<tok_embeddings(prev_output_tokens)>>
        ELSE <<tok_embeddings(LastColumn(prev_output_tokens))>>

\* as AdvancedStartPos, but the left prompt is not counted
AdvancedStartPos_AudioOnly(start_pos, audio_out, left_prompts) ==
    IF audio_out.some /\ start_pos # 0
    THEN start_pos + SeqLen(audio_out.val)
    ELSE start_pos

\* lines 524-528: the start_pos the rest of the call works with
AdvancedStartPos(start_pos, audio_out, left_prompts) ==
    IF audio_out.some /\ start_pos # 0 THEN
        IF left_prompts.some
        THEN start_pos + SeqLen(left_prompts.val) + SeqLen(audio_out.val)
        ELSE start_pos + SeqLen(audio_out.val)
    ELSE start_pos

\* LLAMA.forward_generate on the cache map st.  Result: st the cache map
\* afterwards, out the output (one cell per position of the chunk), err the
\* exception raised ("" for none), pos the first rotary position looked up,
\* seqlen the chunk length, masked whether a mask was built, mask the mask,
\* h the chunk
forward_generate(m, st, prev_output_tokens, start_pos, audio_out, left_prompts) ==
    LET parts == Assemble(prev_output_tokens, start_pos, audio_out, left_prompts)
        pos == AdvancedStartPos(start_pos, audio_out, left_prompts)
    IN
    IF ~CatOK(parts) THEN
        [st |-> st, out |-> <<>>, err |-> "RuntimeError", pos |-> pos,
         seqlen |-> 0, masked |-> FALSE, mask |-> None, h |-> <<>>]
    ELSE
      LET h == CatAll(parts)
          seqlen == SeqLen(h)
          freqs_cis == Slice(m.freqs_cis, pos, pos + seqlen)
          mask == IF seqlen > 1 THEN Some(CausalMask(seqlen, pos)) ELSE None
          r == RunLayers(m, 0, h, freqs_cis, mask, st)
      IN [st |-> r.st,
          out |-> IF r.err = "" THEN [b \in 1..Len(h) |-> [j \in 1..seqlen |->
                                        [logits |-> r.h[b][j]]]] ELSE <<>>,
          err |-> r.err, pos |-> pos, seqlen |-> seqlen,
          masked |-> mask.some, mask |-> mask, h |-> h]

(* ------------------------ full-sequence forward ------------------------ *)
\* LLAMA.forward is called by LLaMADecoder.forward (line 95) but is not part
\* of the source; it is modelled from the design document, section 4.7:
\* rotary slice [0, seq_len), strictly upper triangular mask of shape
\* (seq_len, seq_len), all layers without cache, logits for every position.
RECURSIVE RunLayersNoCache(_, _, _, _, _)
RunLayersNoCache(m, i, h, freqs_cis, mask) ==
    IF i = m.n_layers THEN [h |-> h, err |-> ""]
    ELSE LET r == TransformerBlock_forward(m, h, freqs_cis, mask, NoEntry)
         IN IF r.err # "" THEN [h |-> <<>>, err |-> r.err]
            ELSE RunLayersNoCache(m, i + 1, r.out, freqs_cis, mask)

forward(m, tokens) ==
    LET h == tok_embeddings(tokens)
        seqlen == SeqLen(h)
        r == RunLayersNoCache(m, 0, h, Slice(m.freqs_cis, 0, seqlen),
                              Some(CausalMask(seqlen, 0)))
    IN [out |-> IF r.err = "" THEN [b \in 1..Len(h) |-> [j \in 1..seqlen |->
                                      [logits |-> r.h[b][j]]]] ELSE <<>>,
        err |-> r.err]

(* -------------------- reorder_incremental_state_scripting -------------- *)
\* lines 561-564: the entries are visited in insertion order (layer 0 first,
\* "prev_key" before "prev_value"); an index out of range raises IndexError
\* and leaves the entries visited before it reordered
RECURSIVE ReorderFrom(_, _, _)
ReorderFrom(st, new_order, i) ==
    IF i = NLayers THEN [st |-> st, err |-> ""]
    ELSE IF ~st[i].has THEN ReorderFrom(st, new_order, i + 1)
    ELSE IF ~IndexSelectOK(st[i].prev_key, new_order) THEN
        [st |-> st, err |-> "IndexError"]
    ELSE
      LET k == [st EXCEPT ![i].prev_key = IndexSelect(st[i].prev_key, new_order)]
      IN IF ~IndexSelectOK(st[i].prev_value, new_order) THEN
             [st |-> k, err |-> "IndexError"]
         ELSE ReorderFrom(
                [k EXCEPT ![i].prev_value = IndexSelect(st[i].prev_value, new_order)],
                new_order, i + 1)

reorder_incremental_state_scripting(st, new_order) == ReorderFrom(st, new_order, 0)

(* ------------------------------ inputs --------------------------------- *)
\* the configurations explored: ModelArgs with dim, n_heads and use_lora set
DimChoices == {8, 9}
HeadChoices == {2}
ModelArgs ==
    [dim : DimChoices, n_heads : HeadChoices, n_layers : {NLayers},
     max_seq_len : {MaxSeqLen}, use_lora : BOOLEAN]

\* token tensors of shape (bsz, len): row r holds the ids base + r,
\* base + r + 1, ... (mod the number of ids), so rows and columns differ
Tokens(bsz, len, base) ==
    [r \in 1..bsz |-> [j \in 1..len |-> (base + r + j) % (MaxTok + 1)]]
TokenTensors(bsz, lo, hi) ==
    {Tokens(bsz, t, base) : t \in lo..hi, base \in 0..MaxTok}
AudioArgs(bsz) == {None} \cup {Some(encoder_out(bsz, a)) : a \in 1..MaxAudio}
LeftPromptArgs(bsz) == {None} \cup {Some(Tokens(bsz, t, 0)) : t \in 1..MaxLeft}
\* start positions up to the first one beyond the rotary table
StartPositions == 0..(2 * MaxSeqLen)
NewOrders == UNION {[1..n -> 0..(MaxBsz - 1)] : n \in 1..MaxBsz}

\* the argument lists of forward_generate explored for a single session
AllCalls ==
    UNION {[tokens : TokenTensors(b, 0, MaxTokens), start_pos : StartPositions,
            audio_out : AudioArgs(b), left_prompts : LeftPromptArgs(b)]
           : b \in 1..MaxBsz}
\* and for interleaved sessions
FewCalls ==
    UNION {[tokens : {Tokens(b, 1, 0)}, start_pos : 0..1,
            audio_out : AudioArgs(b), left_prompts : {None}]
           : b \in 1..MaxBsz}

(* ------------------------------ history -------------------------------- *)
\* longest cache of a cache map
MaxLen(st) ==
    LET lens == {KeyLen(st[i]) : i \in Layers} \cup {ValueLen(st[i]) : i \in Layers}
    IN CHOOSE n \in lens : \A k \in lens : k <= n
Populated(st) == \E i \in Layers : st[i].has

\* per-layer cached key lengths of a cache map
Lens(st) == [i \in Layers |-> KeyLen(st[i])]

\* the cached tensors of a cache map, whatever keys the map holds
Tensors(st) ==
    [i \in Layers |-> [has |-> st[i].has, prev_key |-> st[i].prev_key,
                       prev_value |-> st[i].prev_value]]

\* the rotary positions of the keys a layer's cache holds for batch row 0
KeyPositions(d) ==
    IF d.has THEN [t \in 1..KeyLen(d) |-> d.prev_key[1][t].pos] ELSE <<>>

\* the rotary positions of the keys the last layer's softmax gives a
\* non-zero weight, per query of the chunk (batch row 0) of an output
AttendedPositions(out) ==
    IF out = <<>> THEN <<>>
    ELSE [j \in 1..Len(out[1]) |->
            [t \in 1..Len(out[1][j].logits.attn.att) |->
                out[1][j].logits.attn.att[t].key.pos]]

\* the length of an optional tensor argument, -1 for None
ArgLen(a) == IF a.some THEN SeqLen(a.val) ELSE -1

\* What a session's caller has done so far.
\*   calls   number of calls made with the session's cache map
\*   form    "fresh": no call yet; "primed": one start_pos = 0 call on the
\*           empty map, then only start_pos > 0 calls; "other": anything else
\*   P, N    for form "primed": the assembled length of the priming call and
\*           the number of start_pos > 0 calls after it
\*   prefix  for form "primed": the number of non-text positions the priming
\*           call put ahead of the text (assembled length - text length)
\*   prime_audio, prime_left   the lengths of the audio and left prompt
\*           arguments of the priming call (-1 for None)
\*   raised  some call raised;  bsz: batch size of the first call;
\*   same_bsz: every call had that batch size
\*   resumed a call of another session ran between two calls of this one
\*   stepwise  the calls so far feed one token sequence token by token: no
\*           audio, no left prompt, the first call with one token at
\*           start_pos 0, every later call with start_pos = tokens fed so far
\*   fed, outs  for stepwise sessions: the tokens consumed and the outputs
\*           returned, per batch row (<<>> otherwise)
NoHistory == [calls |-> 0, form |-> "fresh", P |-> 0, N |-> 0, prefix |-> 0,
              prime_audio |-> -1, prime_left |-> -1, raised |-> FALSE,
              bsz |-> 0, same_bsz |-> TRUE, resumed |-> FALSE,
              stepwise |-> TRUE, fed |-> <<>>, outs |-> <<>>]

HistAfterForward(h, resumed, c, r) ==
    LET priming == c.start_pos = 0 /\ h.form = "fresh"
        form == IF priming THEN "primed"
                ELSE IF h.form = "primed" /\ c.start_pos > 0 THEN "primed"
                ELSE "other"
        keep == form = "primed" /\ ~priming
        consumed == IF c.start_pos = 0 THEN c.tokens ELSE LastColumn(c.tokens)
        stepwise == /\ h.stepwise
                    /\ ~c.audio_out.some /\ ~c.left_prompts.some
                    /\ SeqLen(c.tokens) >= 1
                    /\ IF h.calls = 0
                       THEN c.start_pos = 0 /\ SeqLen(c.tokens) = 1
                       ELSE /\ c.start_pos = SeqLen(h.fed)
                            /\ Len(c.tokens) = Len(h.fed)
    IN [calls |-> h.calls + 1,
        form |-> form,
        P |-> IF priming THEN r.seqlen ELSE IF keep THEN h.P ELSE 0,
        N |-> IF keep THEN h.N + 1 ELSE 0,
        prefix |-> IF priming THEN r.seqlen - SeqLen(c.tokens)
                   ELSE IF keep THEN h.prefix ELSE 0,
        prime_audio |-> IF priming THEN ArgLen(c.audio_out)
                        ELSE IF keep THEN h.prime_audio ELSE -1,
        prime_left |-> IF priming THEN ArgLen(c.left_prompts)
                       ELSE IF keep THEN h.prime_left ELSE -1,
        raised |-> h.raised \/ r.err # "",
        bsz |-> IF h.calls = 0 THEN Len(c.tokens) ELSE h.bsz,
        same_bsz |-> h.same_bsz /\ (h.calls = 0 \/ Len(c.tokens) = h.bsz),
        resumed |-> h.resumed \/ resumed,
        stepwise |-> stepwise,
        fed |-> IF ~stepwise THEN <<>>
                ELSE IF h.calls = 0 THEN consumed ELSE Cat(h.fed, consumed),
        outs |-> IF ~stepwise THEN <<>>
                 ELSE IF r.err # "" THEN h.outs
                 ELSE IF h.calls = 0 \/ h.outs = <<>> THEN r.out
                 ELSE Cat(h.outs, r.out)]

HistAfterReorder(h, resumed, err) ==
    [h EXCEPT !.calls = h.calls + 1, !.form = "other", !.P = 0, !.N = 0,
              !.prefix = 0, !.prime_audio = -1, !.prime_left = -1,
              !.raised = h.raised \/ err # "", !.same_bsz = FALSE,
              !.resumed = h.resumed \/ resumed,
              !.stepwise = FALSE, !.fed = <<>>, !.outs = <<>>]

\* The last call.
\*   op, s     the operation and the session whose cache map was passed
\*   err       the exception it raised, "" when it returned
\*   start_pos, audio_len, left_len, new_order   its arguments (lengths of
\*             the optional tensors, -1 for None)
\*   pos, seqlen, masked   forward_generate: first rotary position looked
\*             up, chunk length, whether a mask was built
\*   fresh     the cache map held no cached tensor before the call
\*   primed_with  the arguments of a start_pos = 0 call on such a map that
\*             returned (<<>> otherwise)
\*   twin      outcome and cache lengths of the same call on the same cache
\*             map when the model has the adapter enabled
\*   cached    key length layer 0 held before the call
\*   mask_shape  rows and columns of the mask built (<<>> for none)
\*   attended  forward_generate that returned: per query of the chunk, the
\*             rotary positions of the keys attended in the last layer
\*   changed   the call changed a cached tensor of the map
NoCall == [op |-> "none", s |-> "none", err |-> "", start_pos |-> 0, pos |-> 0,
           seqlen |-> 0, masked |-> FALSE,
           audio_len |-> -1, left_len |-> -1, new_order |-> <<>>,
           fresh |-> FALSE, primed_with |-> <<>>,
           twin |-> [err |-> "", lens |-> <<>>],
           cached |-> 0, mask_shape |-> <<>>, attended |-> <<>>,
           changed |-> FALSE]

(* ------------------------------ actions -------------------------------- *)
Init ==
    /\ params \in ModelArgs
    /\ model = LLAMA_init(params)
    /\ incremental_state = [s \in Sessions |-> EmptyMap]
    /\ last = NoCall
    /\ hist = [s \in Sessions |-> NoHistory]
    /\ alone = [s \in Sessions |-> EmptyMap]

\* as StoreCache, but the cache is kept in the layer, shared by all sessions
\* (the buffers of the commented-out lines 221-226)
StoreCache_InLayer(maps, s, st) == [x \in DOMAIN maps |-> st]

\* lines 272-277 and 548: the layers write into the map the caller passed,
\* which here is the map of session s
StoreCache(maps, s, st) == [maps EXCEPT ![s] = st]

\* The calls below are evaluated once per distinct (model, cache map) pair
\* and bound with \E x \in {value}.

\* the model with the adapter enabled
WithLoRA(m) == [m EXCEPT !.use_lora = TRUE]

\* one call of forward_generate with the cache map of session s
ForwardGenerate(s, calls) ==
    /\ hist[s].calls < MaxCalls
    /\ \E c \in calls :
        \E res \in {[job \in {<<model, incremental_state[s]>>, <<model, alone[s]>>,
                               <<WithLoRA(model), incremental_state[s]>>} |->
                       forward_generate(job[1], job[2], c.tokens, c.start_pos,
                                        c.audio_out, c.left_prompts)]} :
        \E r \in {res[<<model, incremental_state[s]>>]} :
        \E a \in {res[<<model, alone[s]>>]} :
        \E t \in {res[<<WithLoRA(model), incremental_state[s]>>]} :
            LET fresh == ~Populated(incremental_state[s])
            IN /\ MaxLen(r.st) <= MaxCacheLen
               /\ MaxLen(t.st) <= MaxCacheLen
               /\ incremental_state' = StoreCache(incremental_state, s, r.st)
               /\ alone' = [alone EXCEPT ![s] = a.st]
               /\ last' = [op |-> "forward_generate", s |-> s, err |-> r.err,
                           start_pos |-> c.start_pos, pos |-> r.pos,
                           seqlen |-> r.seqlen, masked |-> r.masked,
                           audio_len |-> ArgLen(c.audio_out),
                           left_len |-> ArgLen(c.left_prompts),
                           new_order |-> <<>>, fresh |-> fresh,
                           primed_with |->
                               IF fresh /\ c.start_pos = 0 /\ r.err = ""
                               THEN <<c.tokens, c.audio_out, c.left_prompts>>
                               ELSE <<>>,
                           twin |-> [err |-> t.err, lens |-> Lens(t.st)],
                           cached |-> KeyLen(incremental_state[s][0]),
                           mask_shape |-> IF r.mask.some
                                          THEN <<r.mask.val.n, r.mask.val.n>>
                                          ELSE <<>>,
                           attended |-> AttendedPositions(r.out),
                           changed |-> Tensors(r.st) # Tensors(incremental_state[s])]
               /\ hist' = [hist EXCEPT ![s] =
                             HistAfterForward(hist[s],
                                              hist[s].calls > 0 /\ last.s # s, c, r)]
               /\ UNCHANGED <<params, model>>

\* one call of reorder_incremental_state_scripting on the map of session s
Reorder(s) ==
    /\ hist[s].calls < MaxCalls
    /\ \E new_order \in NewOrders :
        \E res \in {[st \in {incremental_state[s], alone[s]} |->
                       reorder_incremental_state_scripting(st, new_order)]} :
        \E r \in {res[incremental_state[s]]} :
        \E a \in {res[alone[s]]} :
               /\ incremental_state' = StoreCache(incremental_state, s, r.st)
               /\ alone' = [alone EXCEPT ![s] = a.st]
               /\ last' = [NoCall EXCEPT !.op = "reorder", !.s = s, !.err = r.err,
                                         !.new_order = new_order,
                                         !.fresh = ~Populated(incremental_state[s]),
                                         !.cached = KeyLen(incremental_state[s][0]),
                                         !.changed = Tensors(r.st) #
                                                     Tensors(incremental_state[s])]
               /\ hist' = [hist EXCEPT ![s] =
                             HistAfterReorder(hist[s],
                                              hist[s].calls > 0 /\ last.s # s, r.err)]
               /\ UNCHANGED <<params, model>>

\* one session: every explored argument list
Next == ForwardGenerate("s1", AllCalls) \/ Reorder("s1")

Spec == Init /\ [][Next]_vars

\* two sessions whose calls interleave in any order
TotalCalls == hist["s1"].calls + hist["s2"].calls
NextTwo ==
    \/ TotalCalls <= MaxCalls /\ \E s \in Sessions : ForwardGenerate(s, FewCalls)
    \/ TotalCalls <= MaxCalls /\ \E s \in Sessions : Reorder(s)

SpecTwo == Init /\ [][NextTwo]_vars

(* =============================== claims ================================ *)
\* the configurations in which the layers can run at all: adapter enabled
\* and dim a multiple of n_heads
Runnable == model.use_lora /\ model.wq_out = model.dim

\* C1: a session that feeds a token sequence token by token (priming with the
\* first token at start_pos 0, then one call per token with start_pos = the
\* number of tokens fed) has received the outputs the full-sequence forward
\* gives for the tokens fed so far.
C1_StepwiseEqualsFull ==
    \A s \in Sessions :
        (hist[s].stepwise /\ hist[s].calls >= 1) =>
            LET f == forward(model, hist[s].fed)
            IN f.err = "" /\ hist[s].outs = f.out

\* C1 restricted to the configurations whose layers run: the same equality.
C1_StepwiseEqualsFull_Runnable == Runnable => C1_StepwiseEqualsFull
C1_Witness ==
    /\ Runnable
    /\ \E s \in Sessions : hist[s].stepwise /\ hist[s].calls = 3
                           /\ Len(hist[s].fed) = 2 /\ SeqLen(hist[s].outs) = 3

\* C2: after a priming call on an empty cache map that assembled P positions
\* and N streaming calls, the key cache and the value cache of every layer
\* have length P + N; and no call makes a cache shorter.
C2_CacheGrowthExact ==
    \A s \in Sessions :
        hist[s].form = "primed" =>
            \A i \in Layers :
                /\ KeyLen(incremental_state[s][i]) = hist[s].P + hist[s].N
                /\ ValueLen(incremental_state[s][i]) = hist[s].P + hist[s].N
C2_NeverShrinks ==
    [][\A s \in Sessions : \A i \in Layers :
        /\ KeyLen(incremental_state'[s][i]) >= KeyLen(incremental_state[s][i])
        /\ ValueLen(incremental_state'[s][i]) >= ValueLen(incremental_state[s][i])]_vars

\* C2 restricted to sessions of a runnable configuration whose calls all
\* returned and all had the same batch size: the lengths are P + N.
C2_Exact_Runnable ==
    \A s \in Sessions :
        (Runnable /\ hist[s].form = "primed" /\ ~hist[s].raised /\ hist[s].same_bsz)
            => \A i \in Layers :
                /\ KeyLen(incremental_state[s][i]) = hist[s].P + hist[s].N
                /\ ValueLen(incremental_state[s][i]) = hist[s].P + hist[s].N
C2_Witness ==
    \E s \in Sessions :
        /\ Runnable /\ hist[s].form = "primed" /\ ~hist[s].raised /\ hist[s].same_bsz
        /\ hist[s].P = 3 /\ hist[s].N = 1

\* the last call was a streaming call (start_pos > 0) of forward_generate
Streaming == last.op = "forward_generate" /\ last.start_pos > 0

OffsetOfArguments ==
    IF last.audio_len >= 0
    THEN last.audio_len + (IF last.left_len >= 0 THEN last.left_len ELSE 0)
    ELSE 0

Reordered == last.op = "reorder" /\ last.err = ""

\* C4: a reorder call that returns replaces, in every layer with cached
\* tensors, batch row b of the key and of the value by the old row
\* new_order[b], keeps the cached length, leaves the other layers as they
\* were, and changes nothing when new_order is the identity.
C4_ReorderSelectsRows ==
    [][Reordered' =>
        \A i \in Layers :
            LET d == incremental_state[last'.s][i]
                e == incremental_state'[last'.s][i]
                order == last'.new_order
            IN IF d.has
               THEN /\ e.has /\ e.in_map
                    /\ Len(e.prev_key) = Len(order)
                    /\ Len(e.prev_value) = Len(order)
                    /\ \A b \in 1..Len(order) :
                         /\ e.prev_key[b] = d.prev_key[order[b] + 1]
                         /\ e.prev_value[b] = d.prev_value[order[b] + 1]
                    /\ KeyLen(e) = KeyLen(d) /\ ValueLen(e) = ValueLen(d)
                    /\ (order = [b \in 1..Len(d.prev_key) |-> b - 1] => e = d)
               ELSE e = d]_vars
C4_Witness ==
    /\ Reordered /\ last.new_order = <<1, 0>>
    /\ \E i \in Layers :
         LET d == incremental_state[last.s][i]
         IN d.has /\ Len(d.prev_key) = 2 /\ d.prev_key[1] # d.prev_key[2]
                  /\ KeyLen(d) >= 2

\* C5: a streaming call (start_pos > 0) that is the first call of a session
\* raises and leaves every layer without cached tensors.
C5_StreamingBeforePrimingFails ==
    (Streaming /\ hist[last.s].calls = 1)
        => (last.err # "" /\ ~Populated(incremental_state[last.s]))

\* the last call was a forward_generate call with a non-empty chunk
Forwarded == last.op = "forward_generate" /\ last.seqlen >= 1

\* C6 as stated: a call whose positions reach beyond max_seq_len raises, and
\* no call whose positions stay within max_seq_len fails the position check.
C6_FailsBeyondMaxSeqLen ==
    Forwarded =>
        /\ (last.pos + last.seqlen > params.max_seq_len) => last.err # ""
        /\ (last.pos + last.seqlen <= params.max_seq_len) => last.err # "AssertionError"

\* C6 amended: the limit is the length of the rotary table, 2 * max_seq_len.
\* A call whose positions reach beyond it raises (the assertion of
\* reshape_for_broadcast, when the layers run), and no call whose positions
\* stay within it fails that assertion.
C6_FailsBeyondRotaryTable ==
    Forwarded =>
        /\ (last.pos + last.seqlen > 2 * params.max_seq_len) =>
              /\ last.err # ""
              /\ Runnable => last.err = "AssertionError"
        /\ (last.pos + last.seqlen <= 2 * params.max_seq_len) =>
              last.err # "AssertionError"
C6_Witness ==
    /\ Forwarded /\ Runnable
    /\ last.pos + last.seqlen = 2 * params.max_seq_len + 1
    /\ last.err = "AssertionError"

\* C7: construction fails exactly when dim is not a multiple of n_heads, and
\* every model that is constructed has head_dim * n_heads = dim.
C7_ConstructionChecksDivisibility ==
    /\ (params.dim % params.n_heads # 0) <=> ~model.constructed
    /\ model.constructed => model.head_dim * params.n_heads = params.dim

\* C8: with the adapter disabled a call that completes with the adapter
\* enabled completes as well and leaves the same cache lengths.
C8_AdapterFlagIrrelevant ==
    (last.op = "forward_generate" /\ ~model.use_lora /\ last.twin.err = "")
        => /\ last.err = ""
           /\ Lens(incremental_state[last.s]) = last.twin.lens

Expected(tokens, audio_out, left_prompts) ==
    IF audio_out.some
    THEN IF left_prompts.some
         THEN Cat(tok_embeddings(left_prompts.val),
                  Cat(audio_out.val, tok_embeddings(tokens)))
         ELSE Cat(audio_out.val, tok_embeddings(tokens))
    ELSE tok_embeddings(tokens)

\* C10: a start_pos = 0 call on a cache map without cached tensors returns,
\* and afterwards every layer's key and value cache has the length of the
\* sequence [left prompt, audio, text] (audio present and left prompt
\* present), [audio, text] (audio present) or [text] (no audio), and layer
\* 0 holds that sequence cell by cell at the rotary positions 0, 1, ...
C10_PrimingAssemblesPrefix ==
    (Forwarded /\ last.start_pos = 0 /\ last.fresh) =>
        /\ last.primed_with # <<>>
        /\ LET exp == Expected(last.primed_with[1], last.primed_with[2],
                               last.primed_with[3])
               st == incremental_state[last.s]
           IN /\ \A i \in Layers :
                    /\ st[i].has
                    /\ KeyLen(st[i]) = SeqLen(exp)
                    /\ ValueLen(st[i]) = SeqLen(exp)
              /\ st[0].prev_key =
                    [b \in 1..Len(exp) |-> [j \in 1..SeqLen(exp) |->
                        [k |-> exp[b][j], pos |-> j - 1]]]
              /\ st[0].prev_value =
                    [b \in 1..Len(exp) |-> [j \in 1..SeqLen(exp) |->
                        [v |-> exp[b][j]]]]

\* C10 restricted to the configurations whose layers run.
C10_PrimingAssemblesPrefix_Runnable == Runnable => C10_PrimingAssemblesPrefix
C10_Witness ==
    /\ Runnable /\ Forwarded /\ last.start_pos = 0 /\ last.fresh
    /\ last.audio_len = 1 /\ last.left_len = 1 /\ last.seqlen = 4

\* the rotary positions, in key order, of the keys the last layer holds for
\* the session of the last call
LastKeys == KeyPositions(incremental_state[last.s][NLayers - 1])

\* of a sequence of key positions, those up to and including position p
UpTo(keys, p) ==
    LET NotLater(q) == q <= p IN SelectSeq(keys, NotLater)

\* every query of the last call's chunk attended exactly the keys at
\* positions up to and including its own
AttendsCausally ==
    \A j \in 1..last.seqlen :
        last.attended[j] = UpTo(LastKeys, last.pos + j - 1)

\* C11: a mask is built exactly when the chunk is longer than 1; a mask
\* built has chunk length rows and cached + chunk length columns; in a call
\* that returns every query attends exactly the keys at positions up to and
\* including its own, and the query of a single-token call attends the whole
\* cache plus itself.
C11_MaskCoversAllKeys ==
    Forwarded =>
        /\ last.masked <=> last.seqlen > 1
        /\ last.masked =>
              last.mask_shape = <<last.seqlen, last.cached + last.seqlen>>
        /\ last.err = "" =>
              /\ AttendsCausally
              /\ last.seqlen = 1 => last.attended[1] = LastKeys

\* C11 as the code has it: the mask is built exactly when the chunk is
\* longer than 1, which happens in start_pos = 0 calls only, and is square
\* (chunk length by chunk length); on a map without cached keys it covers
\* all keys and every query attends exactly the positions up to its own; on
\* a map with cached keys the masked call raises when the layers run; a
\* single-token call that returns attends the whole cache plus itself.
C11_SquareMask ==
    Forwarded =>
        /\ last.masked <=> last.seqlen > 1
        /\ last.masked =>
              /\ last.start_pos = 0 /\ last.pos = 0
              /\ last.mask_shape = <<last.seqlen, last.seqlen>>
              /\ (Runnable /\ last.cached > 0) => last.err = "RuntimeError"
        /\ (last.err = "" /\ last.cached = 0) => AttendsCausally
        /\ (last.err = "" /\ last.seqlen = 1) => last.attended[1] = LastKeys
C11_Witness ==
    /\ Forwarded /\ Runnable /\ last.masked /\ last.cached > 0
    /\ last.err = "RuntimeError"

\* C12: in every state each layer with a cache holds a key cache and a
\* value cache of the same length, all layers of a cache map have the same
\* cache length, and a forward_generate call that raised has left the cached
\* tensors of its map as they were.
C12_CachesConsistent ==
    /\ \A s \in Sessions : \A i \in Layers :
          /\ KeyLen(incremental_state[s][i]) = ValueLen(incremental_state[s][i])
          /\ \A k \in Layers :
                KeyLen(incremental_state[s][i]) = KeyLen(incremental_state[s][k])
    /\ (last.op = "forward_generate" /\ last.err # "") => ~last.changed

\* C12 as the code has it: key and value cache of a layer always have the
\* same length, and a raising call changes cached tensors only with a
\* RuntimeError on a map with cached keys (layer 0 has stored its extended
\* cache before the failing mask addition or the failing view of a later
\* layer).
C12_KeyValueSameLength ==
    /\ \A s \in Sessions : \A i \in Layers :
          KeyLen(incremental_state[s][i]) = ValueLen(incremental_state[s][i])
    /\ (last.op = "forward_generate" /\ last.err # "" /\ last.changed)
          => (last.err = "RuntimeError" /\ last.cached > 0)
C12_Witness ==
    /\ last.op = "forward_generate" /\ last.err = "RuntimeError" /\ last.changed
    /\ KeyLen(incremental_state[last.s][0]) = 3
    /\ KeyLen(incremental_state[last.s][1]) = 1

====
